---------------------------- MODULE Spec2Model ----------------------------
(***************************************************************************)
(* A model of mterm: the character-grid Image and its drawing primitives   *)
(* (src/src/present.rs), the clipped blit onto the frame lent to the       *)
(* application (PresentInput), and the main loop that drives tick/present  *)
(* (src/src/main_loop.rs) against the renderer's frame (src/src/render.rs).*)
(*                                                                         *)
(* Integers.  A usize value is held by its two's-complement representative:*)
(* n itself below 2^63, n - 2^64 otherwise, so that `x as usize` of a      *)
(* negative i32 (sign extension) keeps the representative, a wrapping add  *)
(* or subtract is the plain sum or difference, and an unsigned comparison  *)
(* puts every negative representative above every non-negative one.  All   *)
(* magnitudes in the model are far below 2^31.                             *)
(***************************************************************************)
EXTENDS Integers, Sequences, FiniteSets, TLC

VARIABLES
    img,              \* the application's Image (present.rs:67)
    frame,            \* the frame: RenderState.size and the three texture
                      \* storages, lent to the application as PresentInput
    pre,              \* img and frame as they were before the last operation
    op,               \* the last drawing/blit operation and its arguments
    panicked,         \* the last operation panicked (the thread unwinds)
    overflow_checks,  \* build profile: arithmetic overflow panics (debug)
                      \* or wraps (release)
    phase,            \* position of the event loop inside one iteration
    control_flow,     \* winit's ControlFlow as the loop sees it
    key_state,        \* main_loop.rs:61
    redraw_requested, \* a RedrawRequested is pending for this iteration
    window_size,      \* window.inner_size() in pixels
    font_char_size,   \* RenderState.font_char_size: glyph cell in pixels
    fullscreen,       \* window.fullscreen().is_some()
    calls,            \* the calls made so far to tick, present and render
    iter,             \* iterations of the event loop completed
    it,               \* what happened inside the current iteration
    hist              \* counts over the whole run

vars == << img, frame, pre, op, panicked, overflow_checks, phase, control_flow,
           key_state, redraw_requested, window_size, font_char_size,
           fullscreen, calls, iter, it, hist >>

imgVars == << img, frame, pre, op, panicked, overflow_checks >>

loopVars == << phase, control_flow, key_state, redraw_requested, window_size,
               font_char_size, fullscreen, calls, iter, it, hist >>

---------------------------------------------------------------------------
(* Bounds of the model *)

\* Image and frame widths and heights range over 0..MaxDim.
MaxDim == 3

\* Anchor coordinates range over -MaxOff .. MaxDim+1.
MaxOff == 2

\* Rectangle and blit extents range over 0..MaxExt.
MaxExt == 3

\* Strings have 0..MaxLen bytes.
MaxLen == 4

Dims == 0..MaxDim

Coords == (0 - MaxOff)..(MaxDim + 1)

Extents == 0..MaxExt

\* The strings "", "A", "AB", "ABC", ...: every byte differs from the others,
\* so the end a run is truncated from shows in the cells.
Texts == { [j \in 1..n |-> 64 + j] : n \in 0..MaxLen }

\* Two character cells (Char::new(ch, ink, paper)) with pairwise different
\* fields, different from the fresh value 0 and from the painted values.
Chars == { [ch |-> 35, ink |-> 1, paper |-> 2], [ch |-> 46, ink |-> 3, paper |-> 4] }

Inks == { [ink |-> 5, paper |-> 6], [ink |-> 7, paper |-> 8] }

Points == { [x |-> px, y |-> py] : px \in Coords, py \in Coords }

---------------------------------------------------------------------------
(* usize arithmetic on representatives *)

\* a + b overflows u64
AddOverflows(a, b) ==
    IF a >= 0 /\ b >= 0 THEN FALSE
    ELSE IF a < 0 /\ b < 0 THEN TRUE
    ELSE a + b >= 0

\* unsigned a < b
ULess(a, b) == IF (a < 0) = (b < 0) THEN a < b ELSE b < 0

\* a - b underflows u64
SubOverflows(a, b) == ULess(a, b)

\* std::cmp::min on usize
UMin(a, b) == IF ULess(b, a) THEN b ELSE a

\* v[a..b] is in range for a vector of length len (a, b: usize)
SliceOk(len, a, b) == ~ULess(b, a) /\ ~ULess(len, b)

\* Mutant of SetRange: the vector is resized to end at b (v.resize(b, val)).
SetRange_resized(v, a, b, val) ==
    [k \in 1..b |-> IF a < k \/ k > Len(v) THEN val ELSE v[k]]

\* v[a..b].iter_mut().for_each(|x| *x = val), for a slice that is in range
SetRange(v, a, b, val) ==
    [k \in 1..Len(v) |-> IF a < k /\ k <= b THEN val ELSE v[k]]

---------------------------------------------------------------------------
(* Image *)

Point_new(x, y) == [x |-> x, y |-> y]

Char_new(ch, ink, paper) == [ch |-> ch, ink |-> ink, paper |-> paper]

Image_new(width, height) ==
    [ width |-> width, height |-> height,
      fore_image |-> [k \in 1..(width * height) |-> 0],
      back_image |-> [k \in 1..(width * height) |-> 0],
      text_image |-> [k \in 1..(width * height) |-> 0] ]

\* Mutant of coords_to_index: the row stride is the height.
coords_to_index_by_height(self, x, y) ==
    IF ULess(x, self.width) /\ ULess(y, self.height)
    THEN [some |-> TRUE, i |-> y * self.height + x]
    ELSE [some |-> FALSE, i |-> 0]

\* Option<usize>: some = FALSE is None
coords_to_index(self, x, y) ==
    IF ULess(x, self.width) /\ ULess(y, self.height)
    THEN [some |-> TRUE, i |-> y * self.width + x]
    ELSE [some |-> FALSE, i |-> 0]

\* The result of a drawing call: the image as the call left it, and whether
\* the call panicked.
Ret(im, panic) == [img |-> im, panic |-> panic]

\* Mutant of clip: the extents are not clamped to the buffer's far edges.
clip_unclamped(self, p, width0, height0) ==
    [ panic  |-> FALSE,
      x      |-> IF p.x < 0 THEN 0 ELSE p.x,
      y      |-> IF p.y < 0 THEN 0 ELSE p.y,
      width  |-> IF p.x < 0 THEN width0 + p.x ELSE width0,
      height |-> IF p.y < 0 THEN height0 + p.y ELSE height0 ]

clip(self, p, width0, height0) ==
    LET ovx    == p.x < 0 /\ AddOverflows(width0, p.x)
        w1     == IF p.x < 0 THEN width0 + p.x ELSE width0
        x      == IF p.x < 0 THEN 0 ELSE p.x
        ovy    == p.y < 0 /\ AddOverflows(height0, p.y)
        h1     == IF p.y < 0 THEN height0 + p.y ELSE height0
        y      == IF p.y < 0 THEN 0 ELSE p.y
        ovw    == SubOverflows(self.width, x)
        ovh    == SubOverflows(self.height, y)
    IN  [ panic  |-> overflow_checks /\ (ovx \/ ovy \/ ovw \/ ovh),
          x      |-> x,
          y      |-> y,
          width  |-> UMin(w1, self.width - x),
          height |-> UMin(h1, self.height - y) ]

\* Image::draw_char
draw_char(self, p, ch) ==
    IF p.x >= 0 /\ p.y >= 0
    THEN LET o == coords_to_index(self, p.x, p.y)
         IN  IF o.some
             THEN IF o.i < Len(self.fore_image) /\ o.i < Len(self.back_image)
                     /\ o.i < Len(self.text_image)
                  THEN Ret([self EXCEPT !.fore_image[o.i + 1] = ch.ink,
                                        !.back_image[o.i + 1] = ch.paper,
                                        !.text_image[o.i + 1] = ch.ch], FALSE)
                  ELSE Ret(self, TRUE)
             ELSE Ret(self, FALSE)
    ELSE Ret(self, FALSE)

\* One row of draw_rect_filled (present.rs:179-189): the three slices
\* [i..i+width] are taken and filled in turn.
FillRow(self, i, width, ch) ==
    LET e == i + width
    IN  IF (overflow_checks /\ AddOverflows(i, width))
           \/ ~SliceOk(Len(self.fore_image), i, e)
        THEN Ret(self, TRUE)
        ELSE LET s1 == [self EXCEPT !.fore_image = SetRange(@, i, e, ch.ink)]
             IN  IF ~SliceOk(Len(self.back_image), i, e)
                 THEN Ret(s1, TRUE)
                 ELSE LET s2 == [s1 EXCEPT !.back_image = SetRange(@, i, e, ch.paper)]
                      IN  IF ~SliceOk(Len(self.text_image), i, e)
                          THEN Ret(s2, TRUE)
                          ELSE Ret([s2 EXCEPT !.text_image = SetRange(@, i, e, ch.ch)],
                                   FALSE)

\* (0..height).for_each(|_| { row; i += self.width })
RECURSIVE FillRows(_, _, _, _, _)
FillRows(self, i, width, rows, ch) ==
    IF rows = 0
    THEN Ret(self, FALSE)
    ELSE LET r == FillRow(self, i, width, ch)
         IN  IF r.panic THEN r
             ELSE FillRows(r.img, i + self.width, width, rows - 1, ch)

\* Image::draw_rect_filled
draw_rect_filled(self, p, width, height, ch) ==
    LET c == clip(self, p, width, height)
    IN  IF c.panic
        THEN Ret(self, TRUE)
        ELSE LET o == coords_to_index(self, c.x, c.y)
             IN  IF o.some
                 THEN FillRows(self, o.i, c.width, c.height, ch)
                 ELSE Ret(self, FALSE)

\* Mutant of clear: width and height are passed in the wrong order.
clear_transposed(self, ink, paper) ==
    draw_rect_filled(self, Point_new(0, 0), self.height, self.width,
                     Char_new(32, ink, paper))

\* Image::clear
clear(self, ink, paper) ==
    draw_rect_filled(self, Point_new(0, 0), self.width, self.height,
                     Char_new(32, ink, paper))

\* text_image[i..i+w].iter_mut().enumerate()
\*     .for_each(|(j, x)| *x = text.as_bytes()[j] as u32):
\* the cells j < n are written, for n the bytes available.
SetBytes(v, i, n, text) ==
    [k \in 1..Len(v) |-> IF i < k /\ k <= i + n THEN text[k - i] ELSE v[k]]

\* Image::draw_string
draw_string(self, p, text, ink, paper) ==
    LET c == clip(self, p, Len(text), 1)
    IN  IF c.panic
        THEN Ret(self, TRUE)
        ELSE LET o == coords_to_index(self, c.x, c.y)
                 i == o.i
                 w == c.width
                 e == i + w
             IN  IF ~o.some
                 THEN Ret(self, FALSE)
                 ELSE IF (overflow_checks /\ AddOverflows(i, w))
                         \/ ~SliceOk(Len(self.fore_image), i, e)
                 THEN Ret(self, TRUE)
                 ELSE LET s1 == [self EXCEPT !.fore_image = SetRange(@, i, e, ink)]
                      IN  IF ~SliceOk(Len(self.back_image), i, e)
                          THEN Ret(s1, TRUE)
                          ELSE LET s2 == [s1 EXCEPT !.back_image = SetRange(@, i, e, paper)]
                               IN  IF ~SliceOk(Len(self.text_image), i, e)
                                   THEN Ret(s2, TRUE)
                                   ELSE IF w > Len(text)
                                   THEN \* text.as_bytes()[j] is out of range at j = len
                                        Ret([s2 EXCEPT !.text_image =
                                                 SetBytes(@, i, Len(text), text)], TRUE)
                                   ELSE Ret([s2 EXCEPT !.text_image =
                                                 SetBytes(@, i, w, text)], FALSE)

\* Mutant of draw_rect: the test for the degenerate case is `&&`, so a
\* rectangle with only one side below 3 takes the border path.
draw_rect_both_small(self, p, width, height, ch) ==
    IF width < 3 /\ height < 3
    THEN draw_rect_filled(self, p, width, height, ch)
    ELSE LET top == draw_rect_filled(self, p, width, 1, ch)
             bot == draw_rect_filled(top.img, Point_new(p.x, p.y + height - 1),
                                     width, 1, ch)
             lef == draw_rect_filled(bot.img, Point_new(p.x, p.y + 1), 1,
                                     height - 2, ch)
             rig == draw_rect_filled(lef.img, Point_new(p.x + width - 1, p.y + 1),
                                     1, height - 2, ch)
         IN  Ret(rig.img, top.panic \/ bot.panic \/ lef.panic \/ rig.panic)

\* Image::draw_rect
draw_rect(self, p, width, height, ch) ==
    IF width < 3 \/ height < 3
    THEN draw_rect_filled(self, p, width, height, ch)
    ELSE LET top == draw_rect_filled(self, p, width, 1, ch)
             bot == draw_rect_filled(top.img, Point_new(p.x, p.y + height - 1),
                                     width, 1, ch)
             lef == draw_rect_filled(bot.img, Point_new(p.x, p.y + 1), 1,
                                     height - 2, ch)
             rig == draw_rect_filled(lef.img, Point_new(p.x + width - 1, p.y + 1),
                                     1, height - 2, ch)
         IN  IF top.panic THEN top
             ELSE IF bot.panic THEN bot
             ELSE IF lef.panic THEN lef
             ELSE rig

---------------------------------------------------------------------------
(* Blitting *)

BlitRect_new(x, y, width, height) == [x |-> x, y |-> y, w |-> width, h |-> height]

\* Mutant of CopyRow: every row is read from the start of the source.
CopyRow_first_row(src, dst, si, di, width) ==
    [k \in 1..Len(dst) |->
        IF di < k /\ k <= di + width THEN src[k - di] ELSE dst[k]]

\* dst_slice.copy_from_slice(src_slice) for src[si..si+width], dst[di..di+width]
CopyRow(src, dst, si, di, width) ==
    [k \in 1..Len(dst) |->
        IF di < k /\ k <= di + width THEN src[si + (k - di)] ELSE dst[k]]

\* The result of a blit into one array: the array as the call left it, and
\* whether the call panicked.
BlitRet(dst, panic) == [dst |-> dst, panic |-> panic]

\* (0..height).for_each(|_| { ... }) of blit (present.rs:270-278)
RECURSIVE BlitRows(_, _, _, _, _, _, _)
BlitRows(src, dst, si, di, width, rows, ops) ==
    IF rows = 0
    THEN BlitRet(dst, FALSE)
    ELSE IF ~SliceOk(Len(src), si, si + width) \/ ~SliceOk(Len(dst), di, di + width)
    THEN BlitRet(dst, TRUE)
    ELSE BlitRows(src, CopyRow(src, dst, si, di, width),
                  si + ops.src.w, di + ops.dst.w, width, rows - 1, ops)

\* fn blit<T>(src, dst, ops)
blit(src, dst, ops) ==
    LET sx0 == ops.src_blit.x
        sy0 == ops.src_blit.y
        sw0 == ops.src_blit.w
        sh0 == ops.src_blit.h
        dx0 == ops.dst_blit.x
        dy0 == ops.dst_blit.y
        dw0 == ops.dst_blit.w
        dh0 == ops.dst_blit.h
        \* if sx < 0 { sw += dx; dw += dx; dx -= dx; sx = 0 }
        sw1 == IF sx0 < 0 THEN sw0 + dx0 ELSE sw0
        dw  == IF sx0 < 0 THEN dw0 + dx0 ELSE dw0
        dx  == IF sx0 < 0 THEN dx0 - dx0 ELSE dx0
        sx  == IF sx0 < 0 THEN 0 ELSE sx0
        \* if sx + sw > ops.src.w { sw = ops.src.w - sx }
        sw  == IF sx + sw1 > ops.src.w THEN ops.src.w - sx ELSE sw1
        width == IF dw < sw THEN dw ELSE sw
        sh1 == IF sy0 < 0 THEN sh0 + dy0 ELSE sh0
        dh  == IF sy0 < 0 THEN dh0 + dy0 ELSE dh0
        dy  == IF sy0 < 0 THEN dy0 - dy0 ELSE dy0
        sy  == IF sy0 < 0 THEN 0 ELSE sy0
        sh  == IF sy + sh1 > ops.src.h THEN ops.src.h - sy ELSE sh1
        height == IF dh < sh THEN dh ELSE sh
    IN  IF width > 0 /\ height > 0
        THEN BlitRows(src, dst, sy * ops.src.w + sx, dy * ops.dst.w + dx,
                      width, height, ops)
        ELSE BlitRet(dst, FALSE)

\* The result of a PresentInput call: the frame as the call left it, and
\* whether the call panicked.
FrameRet(fr, panic) == [frame |-> fr, panic |-> panic]

\* PresentInput::blit
PresentInput_blit(self, p, dst_width, dst_height, image) ==
    LET blitops == [ src      |-> BlitRect_new(0, 0, image.width, image.height),
                     dst      |-> BlitRect_new(0, 0, self.width, self.height),
                     src_blit |-> BlitRect_new(0, 0, image.width, image.height),
                     dst_blit |-> BlitRect_new(p.x, p.y, dst_width, dst_height) ]
        f == blit(image.fore_image, self.fore_image, blitops)
        b == blit(image.back_image, self.back_image, blitops)
        t == blit(image.text_image, self.text_image, blitops)
        s1 == [self EXCEPT !.fore_image = f.dst]
        s2 == [s1 EXCEPT !.back_image = b.dst]
        s3 == [s2 EXCEPT !.text_image = t.dst]
    IN  IF f.panic THEN FrameRet(s1, TRUE)
        ELSE IF b.panic THEN FrameRet(s2, TRUE)
        ELSE FrameRet(s3, t.panic)

\* PresentInput::blit_screen
PresentInput_blit_screen(self, image) ==
    PresentInput_blit(self, Point_new(0, 0), self.width, self.height, image)

---------------------------------------------------------------------------
(* States the Image and the frame start a drawing or blit call from *)

\* The image after draw_char has been called on every cell, cell k (row-major,
\* from 0) with Char::new(50 + k, 10 + k, 30 + k): no two cells agree in any
\* array.
RECURSIVE Paint(_, _)
Paint(im, k) ==
    IF k >= im.width * im.height
    THEN im
    ELSE Paint(draw_char(im, Point_new(k % im.width, k \div im.width),
                         Char_new(50 + k, 10 + k, 30 + k)).img, k + 1)

\* Texture::new for each of the three textures of a frame of `size`, seen as
\* the PresentInput that present() builds from them.
Frame_new(width, height) ==
    [ width |-> width, height |-> height,
      fore_image |-> [k \in 1..(width * height) |-> 0],
      back_image |-> [k \in 1..(width * height) |-> 0],
      text_image |-> [k \in 1..(width * height) |-> 0] ]

\* A frame that earlier presents have written: the PresentInput arrays are
\* public and mutable, cell k holds 110 + k, 130 + k, 150 + k.
UsedFrame(width, height) ==
    [ width |-> width, height |-> height,
      fore_image |-> [k \in 1..(width * height) |-> 109 + k],
      back_image |-> [k \in 1..(width * height) |-> 129 + k],
      text_image |-> [k \in 1..(width * height) |-> 149 + k] ]

\* The record of a call: its name and arguments (the unused ones at their
\* defaults).
Call(name, p, width, height, text, ch) ==
    [name |-> name, p |-> p, width |-> width, height |-> height,
     text |-> text, ch |-> ch]

NoChar == Char_new(0, 0, 0)

NoCall == Call("none", Point_new(0, 0), 0, 0, << >>, NoChar)

\* KeyState as run_internal creates it (main_loop.rs:61-68).  An Option is its
\* value or "None".
KeyState_new ==
    [vkey |-> "None", pressed |-> FALSE, alt |-> FALSE, ctrl |-> FALSE,
     shift |-> FALSE, code |-> "None"]

\* No tick call yet in this iteration.
NoTick ==
    [called |-> FALSE, width |-> 0, height |-> 0, key |-> KeyState_new,
     mouse |-> "None"]

\* No input event since the application was last called: whether a keyboard
\* event arrived, whether a later keyboard event replaced in key_state the
\* state or key of one that neither of the system-key arms had taken, whether
\* the last keyboard event took the fullscreen arm, and whether a mouse event
\* arrived.
NoInput == [keyboard |-> FALSE, key_lost |-> FALSE, chord |-> FALSE, mouse |-> FALSE]

\* The record of an iteration in which nothing has happened yet: whether an
\* input event arrived, the input events and the TickInput given to tick (the
\* events and the key of the TickInput are kept until present is called), the
\* width and height of the PresentInput given to present, whether present
\* wrote to the frame, what present and render() returned, what the resize
\* after a lost surface did to the frame, and the number of tick, present and
\* render calls.
NoIteration ==
    [input |-> FALSE, events |-> NoInput, tick |-> NoTick, present_size |-> << >>,
     drew |-> FALSE, present |-> "None", rendered |-> "None", resized |-> "None",
     ticks |-> 0, presents |-> 0, renders |-> 0]

\* The record of a run in which nothing has happened yet: the number of
\* render() calls and of Changed results, the position in `calls` of the tick
\* that returned Stop, the number of calls made when the first pressed Escape
\* arrived and when render() reported OutOfMemory (each plus one, 0 for
\* never), and the modifiers of the last ModifiersChanged event.
NoHistory ==
    [renders |-> 0, changed |-> 0, stop_at |-> 0, escape_at |-> 0, oom_at |-> 0,
     mods |-> [alt |-> FALSE, ctrl |-> FALSE, shift |-> FALSE]]

\* The main loop's variables while only drawing calls are modelled.
LoopIdle ==
    /\ phase = "none"
    /\ control_flow = "Poll"
    /\ key_state = KeyState_new
    /\ redraw_requested = FALSE
    /\ window_size = << 0, 0 >>
    /\ font_char_size = << 1, 1 >>
    /\ fullscreen = FALSE
    /\ calls = << >>
    /\ iter = 0
    /\ it = NoIteration
    /\ hist = NoHistory

---------------------------------------------------------------------------
(* Drawing calls on an Image *)

InitDraw ==
    /\ overflow_checks \in BOOLEAN
    /\ \E w \in Dims, h \in Dims, painted \in BOOLEAN :
          img = IF painted THEN Paint(Image_new(w, h), 0) ELSE Image_new(w, h)
    /\ frame = Frame_new(0, 0)
    /\ pre = [img |-> img, frame |-> frame]
    /\ op = NoCall
    /\ panicked = FALSE
    /\ LoopIdle

\* A call may be made: the Image has been constructed and nothing was
\* called on it yet.
Callable == op.name = "none" /\ ~panicked

\* The image takes the result of a drawing call.
Drawn(r, call) ==
    /\ img' = r.img
    /\ panicked' = r.panic
    /\ pre' = [img |-> img, frame |-> frame]
    /\ op' = call
    /\ UNCHANGED << frame, overflow_checks >>
    /\ UNCHANGED loopVars

Clear ==
    /\ Callable
    /\ \E c \in Inks :
          Drawn(clear(img, c.ink, c.paper),
                Call("clear", Point_new(0, 0), 0, 0, << >>,
                     Char_new(32, c.ink, c.paper)))

DrawChar ==
    /\ Callable
    /\ \E p \in Points, ch \in Chars :
          Drawn(draw_char(img, p, ch), Call("draw_char", p, 0, 0, << >>, ch))

DrawString ==
    /\ Callable
    /\ \E p \in Points, text \in Texts, c \in Inks :
          Drawn(draw_string(img, p, text, c.ink, c.paper),
                Call("draw_string", p, 0, 0, text, Char_new(0, c.ink, c.paper)))

DrawRect ==
    /\ Callable
    /\ \E p \in Points, w \in Extents, h \in Extents, ch \in Chars :
          Drawn(draw_rect(img, p, w, h, ch), Call("draw_rect", p, w, h, << >>, ch))

DrawRectFilled ==
    /\ Callable
    /\ \E p \in Points, w \in Extents, h \in Extents, ch \in Chars :
          Drawn(draw_rect_filled(img, p, w, h, ch),
                Call("draw_rect_filled", p, w, h, << >>, ch))

NextDraw == Clear \/ DrawChar \/ DrawString \/ DrawRect \/ DrawRectFilled

DrawSpec == InitDraw /\ [][NextDraw]_vars

---------------------------------------------------------------------------
(* Blits of an Image onto the frame *)

InitBlit ==
    /\ overflow_checks \in BOOLEAN
    /\ \E w \in Dims, h \in Dims : img = Paint(Image_new(w, h), 0)
    /\ \E w \in Dims, h \in Dims : frame = UsedFrame(w, h)
    /\ pre = [img |-> img, frame |-> frame]
    /\ op = NoCall
    /\ panicked = FALSE
    /\ LoopIdle

\* The frame takes the result of a blit call.
Blitted(r, call) ==
    /\ frame' = r.frame
    /\ panicked' = r.panic
    /\ pre' = [img |-> img, frame |-> frame]
    /\ op' = call
    /\ UNCHANGED << img, overflow_checks >>
    /\ UNCHANGED loopVars

Blit ==
    /\ Callable
    /\ \E p \in Points, w \in Extents, h \in Extents :
          Blitted(PresentInput_blit(frame, p, w, h, img),
                  Call("blit", p, w, h, << >>, NoChar))

BlitScreen ==
    /\ Callable
    /\ Blitted(PresentInput_blit_screen(frame, img),
               Call("blit_screen", Point_new(0, 0), frame.width, frame.height,
                    << >>, NoChar))

NextBlit == Blit \/ BlitScreen

BlitSpec == InitBlit /\ [][NextBlit]_vars

---------------------------------------------------------------------------
(* Reading cells, for the properties below *)

\* The (x, y) pairs of a width x height grid.
Grid(width, height) ==
    { [x |-> gx, y |-> gy] : gx \in 0..(width - 1), gy \in 0..(height - 1) }

\* The cell of image or frame g at (x, y), row-major.
CellAt(g, x, y) ==
    [ ch    |-> g.text_image[y * g.width + x + 1],
      ink   |-> g.fore_image[y * g.width + x + 1],
      paper |-> g.back_image[y * g.width + x + 1] ]

\* The three arrays have the length the dimensions give.
WellSized(g) ==
    /\ Len(g.fore_image) = g.width * g.height
    /\ Len(g.back_image) = g.width * g.height
    /\ Len(g.text_image) = g.width * g.height

Min(a, b) == IF a < b THEN a ELSE b

---------------------------------------------------------------------------
(* Properties of the drawing calls (DrawSpec) *)

\* C1: after Image::new and any drawing call with any arguments, fore_image,
\* back_image and text_image each have length width*height, and width and
\* height are what they were before the call.
C1_LengthsKept ==
    /\ WellSized(img)
    /\ WellSized(pre.img)
    /\ img.width = pre.img.width
    /\ img.height = pre.img.height

\* C1 witness: a rectangle fill has changed cells of a painted 2-wide image.
C1_Witness ==
    /\ op.name = "draw_rect_filled"
    /\ ~panicked
    /\ img.width = 2 /\ img.height >= 1
    /\ img # pre.img
    /\ pre.img.fore_image[1] # 0

\* C5: no drawing call panics, whatever the buffer size and the arguments.
C5_NoPanic == ~panicked

\* C8: for an anchor inside the buffer, draw_string writes the first
\* min(len(text), width - x) bytes of text into row y from column x, each with
\* the given ink and paper, and changes no other cell.
C8_StringInside ==
    (/\ op.name = "draw_string"
     /\ 0 <= op.p.x /\ op.p.x < pre.img.width
     /\ 0 <= op.p.y /\ op.p.y < pre.img.height)
    => /\ ~panicked
       /\ WellSized(img)
       /\ LET n == Min(Len(op.text), pre.img.width - op.p.x)
          IN  \A c \in Grid(pre.img.width, pre.img.height) :
                 CellAt(img, c.x, c.y) =
                    IF c.y = op.p.y /\ op.p.x <= c.x /\ c.x < op.p.x + n
                    THEN Char_new(op.text[c.x - op.p.x + 1], op.ch.ink, op.ch.paper)
                    ELSE CellAt(pre.img, c.x, c.y)

\* C8 witness: a string longer than the room left in its row was drawn on a
\* painted image of more than one row: the run was truncated to 1 < len bytes.
C8_Witness ==
    /\ op.name = "draw_string"
    /\ pre.img.width = 2 /\ pre.img.height = 2
    /\ pre.img.text_image[1] # 0
    /\ op.p = Point_new(1, 0)
    /\ Len(op.text) = 3
    /\ img.text_image = << pre.img.text_image[1], 65,
                           pre.img.text_image[3], pre.img.text_image[4] >>

\* C9: draw_char at a point outside the buffer leaves the three arrays
\* unchanged; at a point inside it sets exactly the cell at y*width+x to
\* (ch, ink, paper).
C9_DrawChar ==
    op.name = "draw_char"
    => /\ ~panicked
       /\ WellSized(img)
       /\ IF op.p.x < 0 \/ op.p.y < 0 \/ op.p.x >= pre.img.width
             \/ op.p.y >= pre.img.height
          THEN img = pre.img
          ELSE /\ img.text_image =
                    [pre.img.text_image EXCEPT ![op.p.y * pre.img.width + op.p.x + 1] = op.ch.ch]
               /\ img.fore_image =
                    [pre.img.fore_image EXCEPT ![op.p.y * pre.img.width + op.p.x + 1] = op.ch.ink]
               /\ img.back_image =
                    [pre.img.back_image EXCEPT ![op.p.y * pre.img.width + op.p.x + 1] = op.ch.paper]

\* C9 witness: draw_char has written the cell (0, 1) of a 2x2 image.
C9_Witness ==
    /\ op.name = "draw_char"
    /\ pre.img.width = 2 /\ pre.img.height = 2
    /\ op.p = Point_new(0, 1)
    /\ img.text_image[3] = op.ch.ch
    /\ img # pre.img

\* C9 witness, the other case: draw_char at a negative x on a non-empty image.
C9_WitnessOutside ==
    /\ op.name = "draw_char"
    /\ pre.img.width = 2 /\ pre.img.height = 2
    /\ op.p.x < 0 /\ op.p.y = 0

\* C10: after clear(ink, paper), whatever the size and the previous contents,
\* every cell has character code 32, fore colour ink and back colour paper.
C10_Clear ==
    op.name = "clear"
    => /\ ~panicked
       /\ WellSized(img)
       /\ \A c \in Grid(img.width, img.height) :
             CellAt(img, c.x, c.y) = Char_new(32, op.ch.ink, op.ch.paper)

\* C10 witness: a painted 2x2 image has been cleared.
C10_Witness ==
    /\ op.name = "clear"
    /\ pre.img.width = 2 /\ pre.img.height = 2
    /\ pre.img.text_image[4] # 0
    /\ img.text_image = << 32, 32, 32, 32 >>

\* C11: for every anchor and every width, height with width < 3 or
\* height < 3, draw_rect leaves exactly what draw_rect_filled leaves for the
\* same arguments; draw_rect_filled((0,0), 2, 2, cell) on a buffer of at least
\* 2x2 sets exactly the 4 cells of its top-left corner, and so does draw_rect.
C11_RectDegenerate ==
    /\ (op.name = "draw_rect" /\ (op.width < 3 \/ op.height < 3))
       => Ret(img, panicked)
             = draw_rect_filled(pre.img, op.p, op.width, op.height, op.ch)
    /\ (/\ op.name \in {"draw_rect", "draw_rect_filled"}
        /\ op.p = Point_new(0, 0) /\ op.width = 2 /\ op.height = 2
        /\ pre.img.width >= 2 /\ pre.img.height >= 2)
       => /\ ~panicked
          /\ \A c \in Grid(pre.img.width, pre.img.height) :
                CellAt(img, c.x, c.y) =
                   IF c.x < 2 /\ c.y < 2 THEN op.ch ELSE CellAt(pre.img, c.x, c.y)

\* C11 witness: draw_rect((0,0), 2, 2, cell) on a painted 3x3 image changed
\* exactly 4 cells.
C11_Witness ==
    /\ op.name = "draw_rect"
    /\ op.p = Point_new(0, 0) /\ op.width = 2 /\ op.height = 2
    /\ pre.img.width = 3 /\ pre.img.height = 3
    /\ pre.img.text_image[1] # 0
    /\ Cardinality({ c \in Grid(3, 3) :
                        CellAt(img, c.x, c.y) # CellAt(pre.img, c.x, c.y) }) = 4

\* C19: draw_rect_filled of a rectangle with no cell inside the buffer
\* (x + w <= 0, y + h <= 0, x >= width, y >= height, w = 0 or h = 0) is
\* skipped: it returns and leaves the three arrays unchanged.
C19_EmptyRectSkipped ==
    (/\ op.name = "draw_rect_filled"
     /\ \/ op.p.x + op.width <= 0
        \/ op.p.y + op.height <= 0
        \/ op.p.x >= pre.img.width
        \/ op.p.y >= pre.img.height
        \/ op.width = 0
        \/ op.height = 0)
    => ~panicked /\ img = pre.img

\* C20: draw_string of a run that lies off the buffer (y < 0, y >= height,
\* x >= width or x + len(text) <= 0) is a no-op: it returns and leaves the
\* three arrays unchanged, row 0 included when y is negative.
C20_StringOffBuffer ==
    (/\ op.name = "draw_string"
     /\ \/ op.p.y < 0
        \/ op.p.y >= pre.img.height
        \/ op.p.x >= pre.img.width
        \/ op.p.x + Len(op.text) <= 0)
    => ~panicked /\ img = pre.img

\* The cell (cx, cy) lies in the rectangle anchored at p with the given extent.
InRect(cx, cy, p, width, height) ==
    /\ p.x <= cx /\ cx < p.x + width
    /\ p.y <= cy /\ cy < p.y + height

\* C21: for a rectangle that overlaps the buffer, draw_rect_filled sets
\* exactly the cells of the rectangle that lie inside the buffer to the given
\* cell, in the three arrays, also for a negative x or y and for a far edge
\* beyond the buffer, and leaves every other cell unchanged.
C21_FilledRect ==
    (/\ op.name = "draw_rect_filled"
     /\ \E c \in Grid(pre.img.width, pre.img.height) :
           InRect(c.x, c.y, op.p, op.width, op.height))
    => /\ ~panicked
       /\ WellSized(img)
       /\ \A c \in Grid(pre.img.width, pre.img.height) :
             CellAt(img, c.x, c.y) =
                IF InRect(c.x, c.y, op.p, op.width, op.height)
                THEN op.ch
                ELSE CellAt(pre.img, c.x, c.y)

\* C22: draw_string at (x, y) with -len(text) < x < 0 and 0 <= y < height
\* writes the tail of the text: column c of row y, 0 <= c < min(len + x,
\* width), gets the byte text[c - x] with the given ink and paper, and no
\* other cell changes.
C22_StringTail ==
    (/\ op.name = "draw_string"
     /\ op.p.x < 0 /\ 0 - Len(op.text) < op.p.x
     /\ 0 <= op.p.y /\ op.p.y < pre.img.height)
    => /\ ~panicked
       /\ WellSized(img)
       /\ LET n == Min(Len(op.text) + op.p.x, pre.img.width)
          IN  \A c \in Grid(pre.img.width, pre.img.height) :
                 CellAt(img, c.x, c.y) =
                    IF c.y = op.p.y /\ c.x < n
                    THEN Char_new(op.text[c.x - op.p.x + 1], op.ch.ink, op.ch.paper)
                    ELSE CellAt(pre.img, c.x, c.y)

\* The cell (cx, cy) lies on one of the four one-cell-thick edges of the
\* rectangle anchored at p.
OnBorder(cx, cy, p, width, height) ==
    /\ InRect(cx, cy, p, width, height)
    /\ \/ cx = p.x \/ cx = p.x + width - 1
       \/ cy = p.y \/ cy = p.y + height - 1

\* C23: for width >= 3 and height >= 3 and any anchor, draw_rect sets exactly
\* the cells of the buffer that lie on the four edges of the rectangle to the
\* given cell and leaves the interior and every cell outside the rectangle
\* unchanged, also when the rectangle is partly off the buffer.
C23_RectBorder ==
    (op.name = "draw_rect" /\ op.width >= 3 /\ op.height >= 3)
    => /\ ~panicked
       /\ WellSized(img)
       /\ \A c \in Grid(pre.img.width, pre.img.height) :
             CellAt(img, c.x, c.y) =
                IF OnBorder(c.x, c.y, op.p, op.width, op.height)
                THEN op.ch
                ELSE CellAt(pre.img, c.x, c.y)

---------------------------------------------------------------------------
(* Properties of the blits (BlitSpec) *)

\* The call is a blit of the whole image onto a frame of the image's size:
\* anchor (0, 0), destination extent equal to that size.
FullBlit ==
    /\ op.name \in {"blit", "blit_screen"}
    /\ img.width = pre.frame.width /\ img.height = pre.frame.height
    /\ op.p = Point_new(0, 0)
    /\ op.width = img.width /\ op.height = img.height

\* C6: a full blit onto a frame of the same size leaves the frame's three
\* arrays equal to the image's, and blitting the same image again changes
\* nothing.
C6_FullBlit ==
    FullBlit
    => /\ ~panicked
       /\ frame.fore_image = img.fore_image
       /\ frame.back_image = img.back_image
       /\ frame.text_image = img.text_image
       /\ PresentInput_blit(frame, op.p, op.width, op.height, img)
             = FrameRet(frame, FALSE)
       /\ PresentInput_blit_screen(frame, img) = FrameRet(frame, FALSE)

\* C6 witness: a 2x2 image was blitted with blit onto a used 2x2 frame.
C6_Witness ==
    /\ FullBlit
    /\ op.name = "blit"
    /\ img.width = 2 /\ img.height = 2
    /\ pre.frame # frame
    /\ frame.text_image = img.text_image

\* C7: a blit of a w x h image to the anchor (-a, -b), 0 < a < w, 0 < b < h,
\* with the image's size as destination extent, copies the source cells with
\* x in [a, w), y in [b, h) to the destination cells from (0, 0) on, and
\* leaves every other destination cell unchanged.
C7_PartialBlit ==
    (/\ op.name = "blit"
     /\ op.p.x < 0 /\ 0 - op.p.x < img.width
     /\ op.p.y < 0 /\ 0 - op.p.y < img.height
     /\ op.width = img.width /\ op.height = img.height
     /\ pre.frame.width >= img.width + op.p.x
     /\ pre.frame.height >= img.height + op.p.y)
    => /\ ~panicked
       /\ \A c \in Grid(pre.frame.width, pre.frame.height) :
             CellAt(frame, c.x, c.y) =
                IF c.x < img.width + op.p.x /\ c.y < img.height + op.p.y
                THEN CellAt(img, c.x - op.p.x, c.y - op.p.y)
                ELSE CellAt(pre.frame, c.x, c.y)

\* C24: a blit whose destination rectangle reaches beyond the frame's right
\* or bottom edge, or is anchored at or past the frame's width or height,
\* returns and changes no frame cell outside the destination rectangle: no
\* row runs on into the next one and nothing is indexed outside the arrays.
C24_BlitInsideFrame ==
    (/\ op.name = "blit"
     /\ \/ op.p.x + op.width > pre.frame.width
        \/ op.p.y + op.height > pre.frame.height
        \/ op.p.x >= pre.frame.width
        \/ op.p.y >= pre.frame.height)
    => /\ ~panicked
       /\ WellSized(frame)
       /\ \A c \in Grid(pre.frame.width, pre.frame.height) :
             ~InRect(c.x, c.y, op.p, op.width, op.height)
                => CellAt(frame, c.x, c.y) = CellAt(pre.frame, c.x, c.y)

\* C25: blit_screen(image) leaves the frame as blit((0,0), image.width,
\* image.height, image) leaves it, for images smaller than, equal to and
\* larger than the frame.
C25_BlitScreenAsBlit ==
    op.name = "blit_screen"
    => FrameRet(frame, panicked)
          = PresentInput_blit(pre.frame, Point_new(0, 0), img.width, img.height, img)

---------------------------------------------------------------------------
(* The main loop (main_loop.rs) *)

\* Iterations of the event loop that are followed.
MaxIter == 2

\* The window's inner size in pixels is one of (p, p + GlyphH), p in
\* GlyphW..GlyphW+MaxPix: the character grid has more rows than columns, the
\* smallest sizes give the same grid and the largest a larger one.
MaxPix == 2

\* The glyph cell of the font, in pixels.
GlyphW == 2

GlyphH == 2

WindowSizes == { << px, px + GlyphH >> : px \in GlyphW..(GlyphW + MaxPix) }

\* winit::event::VirtualKeyCode: the two keys the loop looks for.  Any other
\* key is the event whose virtual_keycode is None.
VKeys == {"Escape", "Return"}

\* ModifiersState: any of alt, ctrl and shift held.
Modifiers == [alt : BOOLEAN, ctrl : BOOLEAN, shift : BOOLEAN]

\* `*control_flow = ControlFlow::Poll` at the head of the closure: winit keeps
\* ControlFlow::Exit once it is set.
Sticky(cf) == IF cf = "Exit" THEN "Exit" ELSE "Poll"

\* Mutant of RenderState_resize: the textures are created anew on every call.
RenderState_resize_always(self, new_size) ==
    Frame_new(new_size[1] \div font_char_size[1], new_size[2] \div font_char_size[2])

\* RenderState::resize: the frame for a window of new_size pixels.
RenderState_resize(self, new_size) ==
    LET chars_size == << new_size[1] \div font_char_size[1],
                         new_size[2] \div font_char_size[2] >>
    IN  IF chars_size # << self.width, self.height >>
        THEN Frame_new(chars_size[1], chars_size[2])
        ELSE self

\* What a resize to new_size pixels did to the frame `self`: "same" for
\* the size the window had, "kept" for another size with the same character
\* grid, "replaced" for a new grid when every cell was still 0, "discarded"
\* for a new grid when some cell had been written.
ResizeRecord(self, old_size, new_size) ==
    IF new_size = old_size THEN "same"
    ELSE IF << RenderState_resize(self, new_size).width,
               RenderState_resize(self, new_size).height >>
            = << self.width, self.height >> THEN "kept"
    ELSE IF \E k \in 1..Len(self.text_image) : self.text_image[k] # 0
    THEN "discarded"
    ELSE "replaced"

\* Mutant of TickInput_new: width and height change places.
TickInput_new_transposed(render, ks) ==
    [called |-> TRUE, width |-> render.height, height |-> render.width,
     key |-> ks, mouse |-> "None"]

\* fn tick: the TickInput built for the application
TickInput_new(render, ks) ==
    [called |-> TRUE, width |-> render.width, height |-> render.height,
     key |-> ks, mouse |-> "None"]

\* What an application's present may do with the PresentInput it is lent:
\* nothing, or what examples/hello.rs does, blit_screen of a cleared Image of
\* the frame's size.
AppPresent(fr, draws) ==
    IF draws
    THEN PresentInput_blit_screen(fr,
             clear(Image_new(fr.width, fr.height), 5, 6).img).frame
    ELSE fr

\* The loop's own arithmetic is two u32 divisions and the application modelled
\* draws at (0, 0) only, so the build profile makes no difference to the loop:
\* the release profile is followed.
InitLoop ==
    /\ overflow_checks = FALSE
    /\ img = Image_new(0, 0)
    /\ font_char_size = << GlyphW, GlyphH >>
    /\ window_size \in WindowSizes
    /\ frame = Frame_new(window_size[1] \div font_char_size[1],
                         window_size[2] \div font_char_size[2])
    /\ pre = [img |-> img, frame |-> frame]
    /\ op = NoCall
    /\ panicked = FALSE
    /\ phase = "events"
    /\ control_flow = "Poll"
    /\ key_state = KeyState_new
    /\ redraw_requested = FALSE
    /\ fullscreen = FALSE
    /\ calls = << >>
    /\ iter = 0
    /\ it = NoIteration
    /\ hist = NoHistory

\* A window event is delivered while the events of an iteration are processed.
InEvents == phase = "events" /\ iter < MaxIter

\* WindowEvent::CloseRequested
CloseRequested ==
    /\ InEvents
    /\ control_flow' = "Exit"
    /\ UNCHANGED << key_state, redraw_requested, window_size, font_char_size,
                    fullscreen, calls, iter, it, hist, phase >>
    /\ UNCHANGED imgVars

\* The key state after a KeyboardInput event (main_loop.rs:96-97)
KeyPressed(ks, state, virtual_keycode) ==
    [ks EXCEPT !.pressed = (state = "Pressed"), !.vkey = virtual_keycode]

\* The first arm of the system-keys match: exit
IsExitKey(ks) == ks.pressed /\ ks.vkey = "Escape"

\* The second arm of the system-keys match: toggle fullscreen
IsFullscreenChord(ks) ==
    /\ ks.pressed /\ ~ks.shift /\ ~ks.ctrl /\ ks.alt
    /\ ks.vkey = "Return" /\ ks.code = "None"

\* WindowEvent::KeyboardInput
KeyboardInput ==
    /\ InEvents
    /\ \E state \in {"Pressed", "Released"}, virtual_keycode \in VKeys \cup {"None"} :
       \E monitor \in IF IsFullscreenChord(KeyPressed(key_state, state, virtual_keycode))
                      THEN BOOLEAN ELSE {FALSE} :
          LET ks == KeyPressed(key_state, state, virtual_keycode)
          IN  /\ key_state' = ks
              /\ control_flow' = IF IsExitKey(ks) THEN "Exit" ELSE Sticky(control_flow)
              /\ fullscreen' =
                    IF ~IsExitKey(ks) /\ IsFullscreenChord(ks)
                    THEN IF fullscreen THEN FALSE ELSE monitor
                    ELSE fullscreen
              /\ it' = [it EXCEPT
                           !.input = TRUE,
                           !.events.keyboard = TRUE,
                           !.events.key_lost =
                               \/ @
                               \/ /\ it.events.keyboard /\ ~it.events.chord
                                  /\ ~IsExitKey(key_state)
                                  /\ << ks.pressed, ks.vkey >>
                                        # << key_state.pressed, key_state.vkey >>,
                           !.events.chord = ~IsExitKey(ks) /\ IsFullscreenChord(ks)]
              /\ hist' = [hist EXCEPT !.escape_at =
                             IF IsExitKey(ks) /\ @ = 0 THEN Len(calls) + 1 ELSE @]
    /\ UNCHANGED << redraw_requested, window_size, font_char_size, calls, iter,
                    phase >>
    /\ UNCHANGED imgVars

\* WindowEvent::ModifiersChanged
ModifiersChanged ==
    /\ InEvents
    /\ \E mods \in Modifiers :
          /\ key_state' = [key_state EXCEPT !.alt = mods.alt, !.ctrl = mods.ctrl,
                                            !.shift = mods.shift]
          /\ hist' = [hist EXCEPT !.mods = mods]
    /\ control_flow' = Sticky(control_flow)
    /\ it' = [it EXCEPT !.input = TRUE]
    /\ UNCHANGED << redraw_requested, window_size, font_char_size, fullscreen,
                    calls, iter, phase >>
    /\ UNCHANGED imgVars

\* WindowEvent::Resized
Resized ==
    /\ InEvents
    /\ \E new_size \in WindowSizes :
          /\ window_size' = new_size
          /\ frame' = RenderState_resize(frame, new_size)
    /\ control_flow' = Sticky(control_flow)
    /\ UNCHANGED << key_state, redraw_requested, font_char_size, fullscreen,
                    calls, iter, it, hist, phase >>
    /\ UNCHANGED << img, pre, op, panicked, overflow_checks >>

\* WindowEvent::ScaleFactorChanged
ScaleFactorChanged ==
    /\ InEvents
    /\ \E new_inner_size \in WindowSizes :
          /\ window_size' = new_inner_size
          /\ frame' = RenderState_resize(frame, new_inner_size)
    /\ control_flow' = Sticky(control_flow)
    /\ UNCHANGED << key_state, redraw_requested, font_char_size, fullscreen,
                    calls, iter, it, hist, phase >>
    /\ UNCHANGED << img, pre, op, panicked, overflow_checks >>

\* WindowEvent::CursorMoved, MouseInput, MouseWheel, CursorEntered or
\* CursorLeft: no arm of the match names them (`_ => {}`)
MouseEvent ==
    /\ InEvents
    /\ control_flow' = Sticky(control_flow)
    /\ it' = [it EXCEPT !.input = TRUE, !.events.mouse = TRUE]
    /\ UNCHANGED << key_state, redraw_requested, window_size, font_char_size,
                    fullscreen, calls, iter, hist, phase >>
    /\ UNCHANGED imgVars

\* Any other window event, ReceivedCharacter and Focused among them
\* (`_ => {}`)
OtherWindowEvent ==
    /\ InEvents
    /\ control_flow' = Sticky(control_flow)
    /\ it' = [it EXCEPT !.input = TRUE]
    /\ UNCHANGED << key_state, redraw_requested, window_size, font_char_size,
                    fullscreen, calls, iter, hist, phase >>
    /\ UNCHANGED imgVars

\* Mutant of AfterTick: the result of tick is ignored.
AfterTick_ignored(cf, result) == Sticky(cf)

\* `if let TickResult::Stop = tick(..) { *control_flow = ControlFlow::Exit }`
AfterTick(cf, result) == IF result = "Stop" THEN "Exit" ELSE Sticky(cf)

\* Mutant of request_redraw: no redraw is requested.
request_redraw_dropped(pending) == pending

\* window.request_redraw(): a RedrawRequested is pending, whether or not one
\* was before.
request_redraw(pending) == TRUE

\* Mutant of ClearOneShot: the key of the event is kept.
ClearOneShot_pressed_only(ks) == [ks EXCEPT !.pressed = FALSE]

\* `key_state.pressed = false; key_state.vkey = None;` after tick returned
ClearOneShot(ks) == [ks EXCEPT !.pressed = FALSE, !.vkey = "None"]

\* Event::MainEventsCleared
MainEventsCleared ==
    /\ InEvents
    /\ \E result \in {"Continue", "Stop"} :
          /\ control_flow' = AfterTick(control_flow, result)
          /\ hist' = [hist EXCEPT !.stop_at =
                         IF result = "Stop" /\ @ = 0 THEN Len(calls) + 1 ELSE @]
    /\ calls' = Append(calls, "tick")
    /\ it' = [it EXCEPT !.tick = TickInput_new(frame, key_state), !.ticks = @ + 1]
    /\ key_state' = ClearOneShot(key_state)
    /\ redraw_requested' = request_redraw(redraw_requested)
    /\ phase' = "redraw"
    /\ UNCHANGED << window_size, font_char_size, fullscreen, iter >>
    /\ UNCHANGED imgVars

\* Mutant of AfterRender: a lost surface ends the loop as well.
AfterRender_lost_fatal(cf, rendered) ==
    IF rendered \in {"OutOfMemory", "Lost"} THEN "Exit" ELSE Sticky(cf)

\* `match render.render() { .. Err(OutOfMemory) => *control_flow = Exit .. }`;
\* rendered is "None" when render() was not called
AfterRender(cf, rendered) ==
    IF rendered = "OutOfMemory" THEN "Exit" ELSE Sticky(cf)

\* Mutant of CallsRender: render() is called whatever present returned.
CallsRender_always(result) == TRUE

\* `if let PresentResult::Changed = present(..) { match render.render() .. }`:
\* whether render() is called
CallsRender(result) == result = "Changed"

\* Event::RedrawRequested.  render() ends Ok or with a SwapChainError; on
\* Lost the frame is resized to window.inner_size(), the window's size at that
\* moment, which need not be the size of the last Resized event.
RedrawRequested ==
    /\ phase = "redraw"
    /\ redraw_requested
    /\ redraw_requested' = FALSE
    /\ calls' = Append(calls, "present")
    /\ \E draws \in BOOLEAN :
       \E drawn \in {AppPresent(frame, draws)}, result \in {"Changed", "NoChanges"} :
       \E rendered \in IF CallsRender(result)
                       THEN {"Ok", "Lost", "OutOfMemory", "Timeout"} ELSE {"None"} :
       \E inner_size \in IF rendered = "Lost" THEN WindowSizes ELSE {window_size} :
          LET lost == CallsRender(result) /\ rendered = "Lost"
          IN  /\ window_size' = inner_size
              /\ frame' = IF lost THEN RenderState_resize(drawn, inner_size) ELSE drawn
              /\ control_flow' = AfterRender(control_flow, rendered)
              /\ it' = [it EXCEPT !.present = result, !.presents = @ + 1,
                                  !.events = NoInput,
                                  !.tick.key = KeyState_new,
                                  !.present_size = << frame.width, frame.height >>,
                                  !.drew = draws,
                                  !.rendered = rendered,
                                  !.resized = IF lost
                                              THEN ResizeRecord(drawn, window_size,
                                                                inner_size)
                                              ELSE "None",
                                  !.renders = IF CallsRender(result) THEN @ + 1 ELSE @]
              /\ hist' = [hist EXCEPT
                             !.renders = IF CallsRender(result) THEN @ + 1 ELSE @,
                             !.changed = IF result = "Changed" THEN @ + 1 ELSE @,
                             !.oom_at = IF CallsRender(result) /\ rendered = "OutOfMemory"
                                           /\ @ = 0
                                        THEN Len(calls) + 2 ELSE @]
    /\ UNCHANGED << key_state, font_char_size, fullscreen, iter, phase >>
    /\ UNCHANGED << img, pre, op, panicked, overflow_checks >>

\* Event::RedrawEventsCleared (`_ => {}`), after which the event loop ends the
\* iteration: it exits if control_flow is Exit and starts the next one if not.
RedrawEventsCleared ==
    /\ phase = "redraw"
    /\ ~redraw_requested
    /\ control_flow' = Sticky(control_flow)
    /\ phase' = IF control_flow = "Exit" THEN "exited" ELSE "events"
    /\ iter' = iter + 1
    /\ it' = NoIteration
    /\ UNCHANGED << key_state, redraw_requested, window_size, font_char_size,
                    fullscreen, calls, hist >>
    /\ UNCHANGED imgVars

Next ==
    \/ CloseRequested
    \/ KeyboardInput
    \/ ModifiersChanged
    \/ Resized
    \/ ScaleFactorChanged
    \/ MouseEvent
    \/ OtherWindowEvent
    \/ MainEventsCleared
    \/ RedrawRequested
    \/ RedrawEventsCleared

Init == InitLoop

Spec == Init /\ [][Next]_vars

---------------------------------------------------------------------------
(* Properties of the main loop (Spec) *)

\* C2: in every iteration render() is called once if present returned
\* Changed and not at all if it returned NoChanges, so over the run the number
\* of render() calls is the number of Changed results.
C2_RenderIffChanged ==
    /\ hist.renders = hist.changed
    /\ it.present = "Changed" => it.renders = 1
    /\ it.present \in {"None", "NoChanges"} => it.renders = 0

\* C2 witness: present returned NoChanges in the second iteration and render()
\* was not called in it, after a first iteration in which it returned Changed
\* and render() was called once.
C2_Witness ==
    /\ iter = 1
    /\ it.present = "NoChanges" /\ it.renders = 0
    /\ hist.changed = 1 /\ hist.renders = 1

\* C3: once tick has returned Stop, neither tick nor present is called again.
C3_NoCallAfterStop == hist.stop_at > 0 => Len(calls) = hist.stop_at

\* C3 as amended: once tick has returned Stop, tick is not called again and
\* no further event is processed; the Draw phase of the same iteration still
\* runs, so present is called once more, and then the loop has terminated.
C3_StopEndsAfterIteration ==
    hist.stop_at > 0
    => /\ control_flow = "Exit"
       /\ phase \in {"redraw", "exited"}
       /\ Len(calls) <= hist.stop_at + 1
       /\ \A k \in (hist.stop_at + 1)..Len(calls) : calls[k] = "present"
       /\ (phase = "exited" \/ ~redraw_requested) => Len(calls) = hist.stop_at + 1
       /\ phase = "exited" => iter = hist.stop_at \div 2 + 1

\* C3 witness: tick returned Stop in the second iteration, present was called
\* after it, and the loop has exited.
C3_Witness ==
    /\ hist.stop_at = 3
    /\ phase = "exited"
    /\ calls = << "tick", "present", "tick", "present" >>

\* C4: in every iteration tick and present are each called once, tick first,
\* whether or not an input event arrived; the calls alternate, so between two
\* consecutive tick calls there is exactly one present call.
C4_TickThenPresent ==
    /\ \A k \in 1..Len(calls) :
          calls[k] = IF k % 2 = 1 THEN "tick" ELSE "present"
    /\ phase \in {"events", "exited"} => Len(calls) = 2 * iter
    /\ phase = "redraw" =>
          Len(calls) = 2 * iter + (IF redraw_requested THEN 1 ELSE 2)
    /\ phase = "redraw" => it.ticks = 1
    /\ (phase = "redraw" /\ ~redraw_requested) => it.presents = 1

\* C4 witness: the second iteration saw no input event, and tick and present
\* were each called once in it, after the two calls of the first iteration.
C4_Witness ==
    /\ iter = 1
    /\ phase = "redraw"
    /\ ~it.input
    /\ it.ticks = 1 /\ it.presents = 1
    /\ calls = << "tick", "present", "tick", "present" >>

\* The last call made to the application is the tick of this iteration: its
\* TickInput and the input events it came after are on record.
Ticked == phase = "redraw" /\ redraw_requested /\ it.tick.called

\* C12: a pressed Escape ends the loop without the application's tick: tick is
\* never given a snapshot with pressed = true and vkey = Escape, and is not
\* called at all once that event has arrived.
C12_EscapeBypassesTick ==
    /\ Ticked => ~(it.tick.key.pressed /\ it.tick.key.vkey = "Escape")
    /\ hist.escape_at > 0
          => \A k \in hist.escape_at..Len(calls) : calls[k] # "tick"

\* C13: the fullscreen chord (Return pressed, alt held, shift and ctrl not) is
\* consumed by the loop: no tick is given a snapshot that carries that Return
\* key press.
C13_ChordBypassesTick ==
    (Ticked /\ it.events.chord)
    => ~(it.tick.key.pressed /\ it.tick.key.vkey = "Return")

\* C14: every key or mouse event that is not one of the two system keys
\* reaches the application, also when several arrive before one tick: the
\* snapshot of the next tick carries the state and key of each such key event
\* and a MouseState for a mouse event.
C14_EventsReachTick ==
    Ticked
    => /\ ~it.events.key_lost
       /\ it.events.mouse => it.tick.mouse # "None"

\* C15: after a tick has returned pressed, vkey and code are cleared, so a
\* tick that no keyboard event came before sees no key event; alt, ctrl and
\* shift are those of the last ModifiersChanged event, whatever the number of
\* iterations and key events since.
C15_OneShotCleared ==
    /\ (phase \in {"redraw", "exited"} \/ ~it.events.keyboard)
          => /\ ~key_state.pressed
             /\ key_state.vkey = "None"
             /\ key_state.code = "None"
    /\ (Ticked /\ ~it.events.keyboard)
          => /\ ~it.tick.key.pressed
             /\ it.tick.key.vkey = "None"
             /\ it.tick.key.code = "None"
    /\ << key_state.alt, key_state.ctrl, key_state.shift >>
          = << hist.mods.alt, hist.mods.ctrl, hist.mods.shift >>
    /\ Ticked => << it.tick.key.alt, it.tick.key.ctrl, it.tick.key.shift >>
                    = << hist.mods.alt, hist.mods.ctrl, hist.mods.shift >>

\* C15 witness: the tick of the second iteration came after no keyboard
\* event and saw none, with alt still held: the window is fullscreen, so the
\* chord, a key event with alt held, arrived in the first iteration.
C15_Witness ==
    /\ iter = 1
    /\ Ticked
    /\ ~it.events.keyboard
    /\ fullscreen
    /\ it.tick.key = [KeyState_new EXCEPT !.alt = TRUE]

\* RenderState::chars_size of a frame.
chars_size(f) == << f.width, f.height >>

\* The character grid of a window of `size` pixels.
CharsSize(size) == << size[1] \div font_char_size[1], size[2] \div font_char_size[2] >>

\* C16: of the failures of render() only OutOfMemory ends the loop, and no
\* call to the application follows it.  After Lost the frame has the grid of
\* the window's current pixel size, ControlFlow is what it was, and the loop
\* goes on to its next iteration.
C16_RenderFailures ==
    /\ [](hist.oom_at > 0
            => /\ control_flow = "Exit"
               /\ phase \in {"redraw", "exited"}
               /\ Len(calls) = hist.oom_at - 1)
    /\ [](it.rendered = "Lost"
            => chars_size(frame) = CharsSize(window_size) /\ WellSized(frame))
    /\ [][(it'.rendered = "Lost" /\ it.rendered = "None")
            => control_flow' = control_flow]_vars
    /\ [][(it.rendered \in {"Lost", "Timeout"} /\ control_flow = "Poll" /\ it' # it)
            => phase' = "events" /\ iter' = iter + 1]_vars

\* C16 witness: in the second iteration render() reported Lost, the frame was
\* resized to another grid, and ControlFlow is Poll.
C16_Witness ==
    /\ iter = 1
    /\ it.rendered = "Lost"
    /\ it.present_size # chars_size(frame)
    /\ control_flow = "Poll"

\* C17: the grid is always floor(pixel size / glyph size) of the size last
\* resized to.  A step that changes the grid is a resize (a Resized or
\* ScaleFactorChanged event, or the resize after Lost) and leaves three
\* zero-filled arrays of the new width*height; a step that keeps the grid and
\* in which the application did not draw leaves the three arrays as they were.
C17_Resize ==
    /\ [](chars_size(frame) = CharsSize(window_size))
    /\ [][chars_size(frame') # chars_size(frame)
            => /\ \/ phase = "events" /\ phase' = "events" /\ calls' = calls
                  \/ it'.rendered = "Lost" /\ it.rendered = "None"
               /\ CharsSize(window_size') # CharsSize(window_size)
               /\ frame'.fore_image = [k \in 1..(frame'.width * frame'.height) |-> 0]
               /\ frame'.back_image = [k \in 1..(frame'.width * frame'.height) |-> 0]
               /\ frame'.text_image = [k \in 1..(frame'.width * frame'.height) |-> 0]]_vars
    /\ [][(chars_size(frame') = chars_size(frame) /\ ~(it'.drew /\ calls' # calls))
            => frame' = frame]_vars

\* C17 witness: the resize after Lost replaced a frame the application had
\* drawn on by the zero-filled frame of a larger grid.
C17_Witness ==
    /\ it.drew
    /\ it.resized = "discarded"
    /\ it.present_size = << 1, 2 >>
    /\ frame = Frame_new(2, 3)

\* C17 witness, the other case: the resize after Lost, to another pixel size
\* with the same grid, kept the frame the application had drawn on.
C17_WitnessKept ==
    /\ it.drew
    /\ it.resized = "kept"
    /\ frame.text_image = << 32, 32 >>

\* C18: the three arrays of the frame have length width*height in every
\* state, so at every present call; the width and height of the PresentInput
\* are the grid at the call and are the width and height given to tick in the
\* same iteration.
C18_PresentInputSized ==
    /\ WellSized(frame)
    /\ it.presents = 1
          => /\ it.present_size = << it.tick.width, it.tick.height >>
             /\ it.rendered # "Lost" => it.present_size = chars_size(frame)
    /\ Ticked => << it.tick.width, it.tick.height >> = chars_size(frame)

\* C18 witness: after a first iteration, tick and present were given the grid
\* 2x3 in the second, and the resize after Lost then changed it to 1x2.
C18_Witness ==
    /\ iter = 1
    /\ it.presents = 1
    /\ it.present_size = << 2, 3 >>
    /\ it.tick.width = 2 /\ it.tick.height = 3
    /\ it.rendered = "Lost"
    /\ frame = Frame_new(1, 2)

===========================================================================
